---- MODULE Spec2Model ----
(***************************************************************************)
(* Model of the AI earnings calendar page.                                 *)
(*                                                                         *)
(*   src/src/lib/supabase.ts   module initialisation of the database       *)
(*                              client (reads process.env, throws or       *)
(*                              creates the client)                        *)
(*   src/src/app/page.tsx      loadUpcomingEarnings (primary query, two    *)
(*                              dependent lookups under Promise.all, the   *)
(*                              keyed-map merge) and Home (the             *)
(*                              reporting-today count)                     *)
(*                                                                         *)
(* The database and the wall clock are the environment: a query that is in *)
(* flight is answered by any response the query's own filters allow, and   *)
(* the clock may advance between any two steps of the page.                *)
(***************************************************************************)
EXTENDS Integers, Sequences, FiniteSets, TLC

\* ------------------------------------------------------------------ bounds
MaxEvents == 2      \* rows a primary response carries at most
MaxRows == 2        \* rows a dependent lookup's response carries at most
MaxNow == 2         \* last clock reading of a behaviour
TicksPerDay == 2    \* clock readings per UTC day

\* ------------------------------------------------------- program constants
Limit == 500        \* .limit(500)
ReportTypeId == 6   \* .eq("report_type_id", 6)

\* --------------------------------------------------------------- JS values
NULL == "<null>"
UNDEF == "<undefined>"

\* !v on a string | null | undefined
Falsy(v) == v \in {NULL, UNDEF, ""}

\* An optional value (T | undefined) is the empty tuple or a 1-tuple.
Undefined == << >>
Some(v) == << v >>

\* A value of type T[] | null.
NullData == [isNull |-> TRUE, items |-> << >>]
Array(s) == [isNull |-> FALSE, items |-> s]

\* ------------------------------------------------------------------ inputs
EnvUrls == {UNDEF, "", "https://db.example"}
EnvProjectIds == {UNDEF, "", "proj"}
EnvKeys == {UNDEF, "", "service-key"}

Isins == {"", "A", "B"}

EARNINGS == "earnings_calendar"
COMPANY == "company"
REPORTS == "reports"
Lookups == {COMPANY, REPORTS}
Tables == {EARNINGS, COMPANY, REPORTS}

Min(a, b) == IF a < b THEN a ELSE b

VARIABLES
    env,            \* process.env
    client,         \* the module src/lib/supabase.ts: its status and export
    now,            \* the wall clock
    pc,             \* position of the page render
    todayIso,       \* loadUpcomingEarnings' todayIso
    issued,         \* the queries sent to the database, in order
    pending,        \* tables whose query is in flight
    reply,          \* what the database answered, per table
    settled,        \* the order in which the lookups were answered
    earningsRows,   \* loadUpcomingEarnings' earningsRows
    results,        \* the array Promise.all fills
    rows,           \* Home's rows (the value loadUpcomingEarnings returned)
    homeToday,      \* Home's todayIso
    upcomingCount   \* Home's upcomingCount

vars == << env, client, now, pc, todayIso, issued, pending, reply, settled,
           earningsRows, results, rows, homeToday, upcomingCount >>

\* ----------------------------------------------------- src/lib/supabase.ts
\* Variant: the URL is never derived from the project identifier.
SupabaseUrlNoProject(e) ==
    IF e.SUPABASE_URL \notin {NULL, UNDEF} THEN e.SUPABASE_URL ELSE UNDEF
\* process.env.SUPABASE_URL ?? (projectId ? `https://${projectId}.supabase.co` : undefined)
SupabaseUrl(e) ==
    IF e.SUPABASE_URL \notin {NULL, UNDEF}
    THEN e.SUPABASE_URL
    ELSE IF ~Falsy(e.SUPABASE_PROJECT_ID)
         THEN "https://" \o e.SUPABASE_PROJECT_ID \o ".supabase.co"
         ELSE UNDEF

NotLoaded == [status |-> "unloaded", url |-> UNDEF, key |-> UNDEF]

\* The module body: the two guards, then createClient.
InitModule(e) ==
    IF Falsy(SupabaseUrl(e))
    THEN [status |-> "threw", url |-> UNDEF, key |-> UNDEF]
    ELSE IF Falsy(e.SUPABASE_SERVICE_ROLE_KEY)
         THEN [status |-> "threw", url |-> UNDEF, key |-> UNDEF]
         ELSE [status |-> "created", url |-> SupabaseUrl(e),
               key |-> e.SUPABASE_SERVICE_ROLE_KEY]

LoadModule ==
    /\ client.status = "unloaded"
    /\ client' = InitModule(env)
    /\ UNCHANGED << env, now, pc, todayIso, issued, pending, reply, settled,
                    earningsRows, results, rows, homeToday, upcomingCount >>

\* ------------------------------------------------------------- environment
\* new Date().toISOString().slice(0, 10): the UTC day of a clock reading.
UtcDate(t) == t \div TicksPerDay

Tick ==
    /\ now < MaxNow
    /\ now' = now + 1
    /\ UNCHANGED << env, client, pc, todayIso, issued, pending, reply, settled,
                    earningsRows, results, rows, homeToday, upcomingCount >>

LastDay == UtcDate(MaxNow)

Ok(s) == [error |-> NULL, data |-> Array(s)]
Failed == [error |-> "query failed", data |-> NullData]
NoData == [error |-> NULL, data |-> NullData]

\* The columns loadUpcomingEarnings never inspects (id, source, created_at,
\* name, generated_at) identify the row of the answer they belong to.
EarningsRow(k, isin, date) ==
    [id |-> 100 + k, isin |-> isin, date |-> date,
     source |-> IF k % 2 = 1 THEN NULL ELSE "wire", created_at |-> 1000 + k]
CompanyRow(k, isin) == [isin |-> isin, name |-> "n" \o ToString(k)]
ReportRow(k, isin, url) ==
    [isin |-> isin, storage_url |-> url, generated_at |-> "g" \o ToString(k)]

\* The storage_url column of the k-th row of an answer: null, empty or a URL.
UrlKinds == {"null", "empty", "url"}
StorageUrl(k, kind) ==
    IF kind = "null" THEN NULL ELSE IF kind = "empty" THEN "" ELSE "u" \o ToString(k)

\* .gte("date", todayIso).order("date", { ascending: true }).limit(500):
\* rows of distinct id, each on or after the bound, ascending by date.
PrimaryResponses(q) ==
    {Failed, NoData} \cup
    UNION {{Ok([k \in 1..n |-> EarningsRow(k, f[k][1], f[k][2])]) :
                f \in {g \in [1..n -> Isins \X (q.gte..LastDay)] :
                          \A i, j \in 1..n : i < j => g[i][2] <= g[j][2]}} :
           n \in 0..Min(MaxEvents, q.limit)}

\* .in("isin", isins): every row answered has one of the identifiers asked for.
CompanyResponses(q) ==
    {Failed, NoData} \cup
    UNION {{Ok([k \in 1..n |-> CompanyRow(k, f[k])]) : f \in [1..n -> q.isins]} :
           n \in 0..MaxRows}
ReportsResponses(q) ==
    {Failed, NoData} \cup
    UNION {{Ok([k \in 1..n |-> ReportRow(k, f[k][1], StorageUrl(k, f[k][2]))]) :
                f \in [1..n -> q.isins \X UrlKinds]} :
           n \in 0..MaxRows}
LookupResponses(q) == IF q.table = COMPANY THEN CompanyResponses(q) ELSE ReportsResponses(q)

QueryOf(t) == CHOOSE k \in 1..Len(issued) : issued[k].table = t

\* ------------------------------------------------------------ src/app/page.tsx
\* Variant: the "?? []" is left out.
OrEmptyOmitted(d) == d
\* data ?? []
OrEmpty(d) == IF d.isNull THEN Array(<< >>) ELSE d

\* if (error)
HasError(resp) == ~Falsy(resp.error)

\* earningsRows.length === 0
NoRows(items) == Len(items) = 0

\* Array.from(new Set(earningsRows.map((row) => row.isin).filter(Boolean)))
IsinsOf(s) == {s[i].isin : i \in {j \in 1..Len(s) : ~Falsy(s[j].isin)}}

\* The three queries, as sent.
EarningsQuery(today) ==
    [table |-> EARNINGS, schema |-> "librarian", gte |-> today, ascending |-> TRUE,
     limit |-> Limit]
CompanyQuery(isins) ==
    [table |-> COMPANY, schema |-> "public", isins |-> isins]
ReportsQuery(isins) ==
    [table |-> REPORTS, report_type_id |-> ReportTypeId, isins |-> isins]

\* Promise.resolve({ data: [], error: null })
Vacuous == Ok(<< >>)

\* Variant: the lookups are sent without the isins.length > 0 guards.
LookupQueriesUnguarded(isins) == << CompanyQuery(isins), ReportsQuery(isins) >>
\* The lookups loadUpcomingEarnings sends for a set of identifiers.
LookupQueries(isins) ==
    IF isins # {} THEN << CompanyQuery(isins), ReportsQuery(isins) >> ELSE << >>

\* The array Promise.all starts from: a slot per element, already fulfilled
\* for an element that is Promise.resolve(...).
LookupSlots(isins) ==
    IF isins # {} THEN << Undefined, Undefined >> ELSE << Some(Vacuous), Some(Vacuous) >>

SlotOf(t) == IF t = COMPANY THEN 1 ELSE 2

\* Variant: fulfilment values are kept in the order they arrive.
PromiseAllFulfilInArrivalOrder(res, idx, val) ==
    LET first == CHOOSE k \in 1..Len(res) :
                     res[k] = Undefined /\ \A j \in 1..(k - 1) : res[j] # Undefined
    IN [res EXCEPT ![first] = Some(val)]
\* Promise.all keeps each fulfilment value at the index of its promise.
PromiseAllFulfil(res, idx, val) == [res EXCEPT ![idx] = Some(val)]

\* Promise.all resolves once every element is fulfilled.
PromiseAllDone(res) == \A k \in 1..Len(res) : res[k] # Undefined

\* Home calls loadUpcomingEarnings, which reads the clock and sends the
\* primary query.
StartRender ==
    /\ pc = "idle"
    /\ client.status = "created"
    /\ todayIso' = UtcDate(now)
    /\ issued' = Append(issued, EarningsQuery(UtcDate(now)))
    /\ pending' = pending \cup {EARNINGS}
    /\ pc' = "awaitPrimary"
    /\ UNCHANGED << env, client, now, reply, settled, earningsRows, results, rows,
                    homeToday, upcomingCount >>

\* Variant: a key already present keeps its value (first write wins).
MapSetKeepFirst(m, k, v) ==
    IF k \in DOMAIN m THEN m ELSE [x \in DOMAIN m \cup {k} |-> IF x = k THEN v ELSE m[x]]
\* A JS Map as a function on its keys; map.set(k, v).
MapSet(m, k, v) == [x \in DOMAIN m \cup {k} |-> IF x = k THEN v ELSE m[x]]
\* map.get(k)
MapGet(m, k) == IF k \in DOMAIN m THEN Some(m[k]) ELSE Undefined
EmptyMap == [x \in {} |-> 0]

\* rowsOf.reduce((map, r) => { map.set(r.isin, r); return map; }, new Map())
RECURSIVE ReduceFrom(_, _)
ReduceFrom(m, s) ==
    IF s = << >> THEN m ELSE ReduceFrom(MapSet(m, Head(s).isin, Head(s)), Tail(s))
ReduceToMap(s) == ReduceFrom(EmptyMap, s)

\* object.property: undefined when the object has no such property.
Get(object, property) ==
    IF property \in DOMAIN object THEN object[property] ELSE UNDEF

\* Variant: only a null storage_url is filtered out (report.storage_url !== null).
HasStorageUrlNotNull(report) == Get(report, "storage_url") \notin {NULL, UNDEF}
\* .filter((report) => report.storage_url)
HasStorageUrl(report) == ~Falsy(Get(report, "storage_url"))
FilterReports(s) == SelectSeq(s, HasStorageUrl)

\* { ...row, company: companies.get(row.isin), report: reports.get(row.isin) }
CalendarRow(row, companies, reports) ==
    [id |-> row.id, isin |-> row.isin, date |-> row.date, source |-> row.source,
     created_at |-> row.created_at,
     company |-> MapGet(companies, row.isin), report |-> MapGet(reports, row.isin)]

\* Variant: only the rows with a company match are mapped (an inner join).
MapRowsInnerJoin(er, companies, reports) ==
    LET matched == SelectSeq(er, LAMBDA row : row.isin \in DOMAIN companies)
    IN [i \in 1..Len(matched) |-> CalendarRow(matched[i], companies, reports)]
\* earningsRows.map(...)
MapRows(er, companies, reports) ==
    [i \in 1..Len(er) |-> CalendarRow(er[i], companies, reports)]

\* Variant: a failed lookup discards the other lookup's rows as well.
EnrichAllOrNothing(er, companiesResult, reportsResult) ==
    IF HasError(companiesResult) \/ HasError(reportsResult)
    THEN MapRows(er, EmptyMap, EmptyMap)
    ELSE MapRows(er,
                 ReduceToMap(OrEmpty(companiesResult.data).items),
                 ReduceToMap(FilterReports(OrEmpty(reportsResult.data).items)))
\* The two maps built from the lookups' results and the rows mapped over them.
Enrich(er, companiesResult, reportsResult) ==
    MapRows(er,
            ReduceToMap(OrEmpty(companiesResult.data).items),
            ReduceToMap(FilterReports(OrEmpty(reportsResult.data).items)))

\* Variant: the lookups are sent whatever the primary query answered.
LookupsForUnguarded(resp) == LookupQueriesUnguarded(IsinsOf(resp.data.items))
\* The lookups sent once the primary query is answered: none after an error
\* or an empty answer, else those of the rows' identifiers.
LookupsFor(resp) ==
    IF HasError(resp) \/ OrEmpty(resp.data).isNull \/ NoRows(OrEmpty(resp.data).items)
    THEN << >>
    ELSE LookupQueries(IsinsOf(OrEmpty(resp.data).items))

\* await Promise.all([...]) and what follows it: the function stays suspended
\* until the array is complete, then builds the two maps and returns the
\* mapped rows. A method called on null raises a TypeError.
Continue(er, res) ==
    IF ~PromiseAllDone(res)
    THEN /\ pc' = "awaitLookups"
         /\ UNCHANGED rows
    ELSE IF OrEmpty(res[1][1].data).isNull \/ OrEmpty(res[2][1].data).isNull
    THEN /\ pc' = "raised"
         /\ UNCHANGED rows
    ELSE /\ pc' = "returned"
         /\ rows' = Enrich(er, res[1][1], res[2][1])

\* The primary query is answered: the error check, the empty short-circuit,
\* the identifier set, the two lookups under Promise.all and, when no lookup
\* is sent, the merge.
PrimaryReplies ==
    /\ pc = "awaitPrimary"
    /\ EARNINGS \in pending
    /\ \E resp \in PrimaryResponses(issued[QueryOf(EARNINGS)]) :
        LET data == OrEmpty(resp.data)
            qs == LookupsFor(resp) IN
        /\ reply' = [reply EXCEPT ![EARNINGS] = Some(resp)]
        /\ issued' = issued \o qs
        /\ pending' = (pending \ {EARNINGS}) \cup {qs[k].table : k \in 1..Len(qs)}
        /\ IF HasError(resp)
           THEN /\ pc' = "returned"
                /\ rows' = << >>
                /\ UNCHANGED << earningsRows, results >>
           ELSE IF data.isNull
           THEN /\ pc' = "raised"
                /\ UNCHANGED << earningsRows, results, rows >>
           ELSE IF NoRows(data.items)
           THEN /\ pc' = "returned"
                /\ rows' = << >>
                /\ UNCHANGED << earningsRows, results >>
           ELSE /\ earningsRows' = data.items
                /\ results' = LookupSlots(IsinsOf(data.items))
                /\ Continue(data.items, LookupSlots(IsinsOf(data.items)))
    /\ UNCHANGED << env, client, now, todayIso, settled, homeToday, upcomingCount >>

\* One of the two lookups is answered; the answer that completes the array
\* resumes the function.
LookupReplies ==
    /\ pc = "awaitLookups"
    /\ \E t \in pending \cap Lookups :
        \E resp \in LookupResponses(issued[QueryOf(t)]) :
            /\ reply' = [reply EXCEPT ![t] = Some(resp)]
            /\ pending' = pending \ {t}
            /\ settled' = Append(settled, t)
            /\ results' = PromiseAllFulfil(results, SlotOf(t), resp)
            /\ Continue(earningsRows, PromiseAllFulfil(results, SlotOf(t), resp))
    /\ UNCHANGED << env, client, now, todayIso, issued, earningsRows,
                    homeToday, upcomingCount >>

\* rows.filter((row) => row.date === todayIso).length
CountOn(rs, day) == Cardinality({i \in 1..Len(rs) : rs[i].date = day})

\* Home resumes with the rows: its own todayIso and the reporting-today count.
HomeResumes ==
    /\ pc = "returned"
    /\ homeToday' = UtcDate(now)
    /\ upcomingCount' = CountOn(rows, UtcDate(now))
    /\ pc' = "rendered"
    /\ UNCHANGED << env, client, now, todayIso, issued, pending, reply, settled,
                    earningsRows, results, rows >>

\* ---------------------------------------------------------- specification
Init ==
    /\ env \in [SUPABASE_URL : EnvUrls, SUPABASE_PROJECT_ID : EnvProjectIds,
                SUPABASE_SERVICE_ROLE_KEY : EnvKeys]
    /\ client = NotLoaded
    /\ now = 0
    /\ pc = "idle"
    /\ todayIso = -1
    /\ issued = << >>
    /\ pending = {}
    /\ reply = [t \in Tables |-> Undefined]
    /\ settled = << >>
    /\ earningsRows = << >>
    /\ results = << >>
    /\ rows = << >>
    /\ homeToday = -1
    /\ upcomingCount = -1

\* loadUpcomingEarnings, from the call to the return, the clock standing still.
NextLoad ==
    \/ LoadModule
    \/ StartRender
    \/ PrimaryReplies
    \/ LookupReplies

Next ==
    \/ NextLoad
    \/ HomeResumes
    \/ Tick

\* Every configuration of the process, the clock running.
Spec == Init /\ [][Next]_vars

\* A configuration that creates the client.
InitLoad ==
    /\ Init
    /\ env.SUPABASE_SERVICE_ROLE_KEY = "service-key"
    /\ env.SUPABASE_URL = UNDEF
    /\ env.SUPABASE_PROJECT_ID = "proj"

SpecLoad == InitLoad /\ [][NextLoad]_vars

\* Start-up alone: the module is loaded and the first query is sent.
NextStartup ==
    \/ LoadModule
    \/ Tick
    \/ StartRender

SpecStartup == Init /\ [][NextStartup]_vars

\* ------------------------------------------------- vocabulary of the claims
Answered(t) == reply[t] # Undefined
FailedQuery(t) == Answered(t) /\ reply[t][1].error # NULL

\* The rows a query answered; none when it failed, answered null or was not sent.
AnswerRows(t) ==
    IF Answered(t) /\ reply[t][1].error = NULL /\ ~reply[t][1].data.isNull
    THEN reply[t][1].data.items
    ELSE << >>

primary == AnswerRows(EARNINGS)
companyRows == AnswerRows(COMPANY)
reportRows == AnswerRows(REPORTS)

Sent(t) == \E k \in 1..Len(issued) : issued[k].table = t
Returned == pc \in {"returned", "rendered"}

Last(K) == CHOOSE k \in K : \A j \in K : j <= k

\* The last row of s for an identifier, if any.
LastRowFor(s, isin) ==
    LET K == {k \in 1..Len(s) : s[k].isin = isin}
    IN IF K = {} THEN Undefined ELSE Some(s[Last(K)])

\* The last row of s for an identifier among the rows with a storage URL.
LastRowWithUrlFor(s, isin) ==
    LET K == {k \in 1..Len(s) : s[k].isin = isin /\ s[k].storage_url \notin {NULL, ""}}
    IN IF K = {} THEN Undefined ELSE Some(s[Last(K)])

SameEvent(r, e) ==
    /\ r.id = e.id
    /\ r.isin = e.isin
    /\ r.date = e.date
    /\ r.source = e.source
    /\ r.created_at = e.created_at

\* ------------------------------------------------------------------ claims

\* C1: after a successful primary query, whatever the lookups answer, the
\* returned sequence has as many records as the primary answer has rows and
\* its i-th record carries the id, identifier, date, source and created_at of
\* the i-th primary row.
C1_LeftJoin ==
    (Returned /\ Answered(EARNINGS) /\ ~FailedQuery(EARNINGS)) =>
        /\ Len(rows) = Len(primary)
        /\ \A i \in 1..Len(rows) : SameEvent(rows[i], primary[i])

\* C1 witness: two events returned in order, the first without a company
\* match, the second with one, the report lookup having failed.
C1_Witness ==
    /\ pc = "returned"
    /\ Len(rows) = 2
    /\ rows[1].company = Undefined
    /\ rows[2].company # Undefined
    /\ rows[1].date < rows[2].date
    /\ FailedQuery(REPORTS)

\* C2: loadUpcomingEarnings never raises; while it is suspended a query it
\* sent is still in flight, so the last answer makes it return; and the
\* records it returns are those of the answers with every failed query
\* counted as having answered no rows.
C2_NeverRaises ==
    /\ pc # "raised"
    /\ (pc = "awaitPrimary") => (EARNINGS \in pending)
    /\ (pc = "awaitLookups") => (pending \cap Lookups # {} /\ ~PromiseAllDone(results))
    /\ (Returned /\ \E t \in Tables : FailedQuery(t)) =>
        /\ Len(rows) = Len(primary)
        /\ \A i \in 1..Len(rows) :
            /\ rows[i].company = LastRowFor(companyRows, rows[i].isin)
            /\ rows[i].report = LastRowWithUrlFor(reportRows, rows[i].isin)

\* C2 witness: both lookups failed and the events are still returned.
C2_Witness ==
    /\ Returned
    /\ FailedQuery(COMPANY)
    /\ FailedQuery(REPORTS)
    /\ Len(rows) >= 1

\* C3: when the primary query fails or answers no rows, the function has
\* returned the empty sequence at once and no lookup is ever sent.
C3_ShortCircuit ==
    (Answered(EARNINGS) /\ (FailedQuery(EARNINGS) \/ primary = << >>)) =>
        /\ Returned
        /\ rows = << >>
        /\ pending = {}
        /\ \A k \in 1..Len(issued) : issued[k].table = EARNINGS

\* C3 witness: the primary query answered an empty array and the function returned.
C3_Witness ==
    /\ pc = "returned"
    /\ Answered(EARNINGS)
    /\ ~FailedQuery(EARNINGS)
    /\ ~reply[EARNINGS][1].data.isNull
    /\ primary = << >>

\* C4: with at least one primary row, a failed company lookup leaves every
\* record without a company and a failed report lookup leaves every record
\* without a report, and the other dimension is attached as the other
\* lookup's answer alone determines.
C4_PartialEnrichment ==
    (Returned /\ Len(primary) >= 1) =>
        /\ Len(rows) = Len(primary)
        /\ FailedQuery(COMPANY) =>
            \A i \in 1..Len(rows) :
                /\ rows[i].company = Undefined
                /\ rows[i].report = LastRowWithUrlFor(reportRows, rows[i].isin)
        /\ FailedQuery(REPORTS) =>
            \A i \in 1..Len(rows) :
                /\ rows[i].report = Undefined
                /\ rows[i].company = LastRowFor(companyRows, rows[i].isin)

\* C4 witness: events A and B, the company lookup fails, the report lookup
\* matches only A: two records, neither with a company, only A with a report.
C4_Witness ==
    /\ Returned
    /\ Len(rows) = 2
    /\ rows[1].isin = "A"
    /\ rows[2].isin = "B"
    /\ FailedQuery(COMPANY)
    /\ rows[1].company = Undefined
    /\ rows[2].company = Undefined
    /\ rows[1].report # Undefined
    /\ rows[2].report = Undefined

\* C5: when the primary rows carry no non-empty identifier, no lookup is sent
\* and every returned record has neither a company nor a report.
C5_NoIdentifiers ==
    (Answered(EARNINGS) /\ Len(primary) >= 1
        /\ \A i \in 1..Len(primary) : primary[i].isin = "") =>
        /\ \A k \in 1..Len(issued) : issued[k].table \notin Lookups
        /\ pending \cap Lookups = {}
        /\ Returned =>
            /\ Len(rows) = Len(primary)
            /\ \A i \in 1..Len(rows) :
                rows[i].company = Undefined /\ rows[i].report = Undefined

\* C5 witness: two events with an empty identifier are returned unenriched.
C5_Witness ==
    /\ Returned
    /\ Len(rows) = 2
    /\ rows[1].isin = ""
    /\ rows[2].isin = ""

\* C6: a record's report, when present, is a row the report lookup answered
\* with a non-empty storage URL: the last such row for the record's
\* identifier, whatever rows without a URL follow it.
C6_ReportHasUrl ==
    Returned =>
        \A i \in 1..Len(rows) :
            /\ rows[i].report # Undefined =>
                /\ rows[i].report[1].storage_url \notin {NULL, UNDEF, ""}
                /\ \E k \in 1..Len(reportRows) :
                       reportRows[k] = rows[i].report[1]
            /\ rows[i].report = LastRowWithUrlFor(reportRows, rows[i].isin)

\* C6 witness: the report lookup answers a row with a URL followed by a row
\* of the same identifier without one, and the record keeps the first.
C6_Witness ==
    /\ Returned
    /\ Len(rows) >= 1
    /\ Len(reportRows) = 2
    /\ reportRows[1].isin = rows[1].isin
    /\ reportRows[2].isin = rows[1].isin
    /\ reportRows[1].storage_url \notin {NULL, ""}
    /\ reportRows[2].storage_url \in {NULL, ""}
    /\ rows[1].report = Some(reportRows[1])

\* C7 as stated: enrichment is keyed by identifier, records sharing an
\* identifier carry the same company and report, the company attached is the
\* last row of the company answer for the identifier and the report attached
\* is the last row of the report answer for the identifier, and a company is
\* attached exactly when the company lookup answered a row with the
\* record's identifier.
C7_Original ==
    Returned =>
        /\ \A i \in 1..Len(rows) :
            /\ rows[i].company # Undefined => rows[i].company[1].isin = rows[i].isin
            /\ rows[i].report # Undefined => rows[i].report[1].isin = rows[i].isin
            /\ rows[i].company = LastRowFor(companyRows, rows[i].isin)
            /\ rows[i].report = LastRowFor(reportRows, rows[i].isin)
            /\ (rows[i].company # Undefined) <=>
                   (\E k \in 1..Len(companyRows) : companyRows[k].isin = rows[i].isin)
        /\ \A i, j \in 1..Len(rows) :
            rows[i].isin = rows[j].isin =>
                rows[i].company = rows[j].company /\ rows[i].report = rows[j].report

\* C7 (amended): enrichment is keyed by identifier: an attached company or
\* report has the record's identifier, records sharing an identifier carry the
\* same company and report, the company attached is the last row of the
\* company answer for that identifier, the report attached is the last row of
\* the report answer for that identifier among the rows with a non-empty
\* storage URL, and a company is attached exactly when the company lookup
\* answered a row with the record's identifier.
C7_KeyedByIdentifier ==
    Returned =>
        /\ \A i \in 1..Len(rows) :
            /\ rows[i].company # Undefined => rows[i].company[1].isin = rows[i].isin
            /\ rows[i].report # Undefined => rows[i].report[1].isin = rows[i].isin
            /\ rows[i].company = LastRowFor(companyRows, rows[i].isin)
            /\ rows[i].report = LastRowWithUrlFor(reportRows, rows[i].isin)
            /\ (rows[i].company # Undefined) <=>
                   (\E k \in 1..Len(companyRows) :
                        companyRows[k].isin = rows[i].isin)
        /\ \A i, j \in 1..Len(rows) :
            rows[i].isin = rows[j].isin =>
                rows[i].company = rows[j].company /\ rows[i].report = rows[j].report

\* C7 witness: two events share identifier A on different dates, each lookup
\* answers two rows for A, and both records carry the second of each.
C7_Witness ==
    /\ Returned
    /\ Len(rows) = 2
    /\ rows[1].isin = "A"
    /\ rows[2].isin = "A"
    /\ rows[1].date # rows[2].date
    /\ Len(companyRows) = 2
    /\ companyRows[1].isin = "A"
    /\ companyRows[2].isin = "A"
    /\ rows[1].company = Some(companyRows[2])
    /\ rows[2].company = Some(companyRows[2])
    /\ Len(reportRows) = 2
    /\ reportRows[1].isin = "A"
    /\ reportRows[2].isin = "A"
    /\ rows[1].report = Some(reportRows[2])
    /\ rows[2].report = Some(reportRows[2])

Set(v) == ~Falsy(v)

C9_FanOutJoin ==
    /\ \A t \in Lookups : Sent(t) =>
        /\ Answered(EARNINGS)
        /\ issued[1].table = EARNINGS
        /\ Sent(COMPANY) /\ Sent(REPORTS)
        /\ (t \in pending) # Answered(t)
    /\ (Sent(COMPANY) /\ settled = << >>) => (pending = Lookups /\ pc = "awaitLookups")
    /\ Len(settled) <= 2
    /\ \A k \in 1..Len(settled) : Answered(settled[k])
    /\ (Returned /\ Sent(COMPANY)) =>
        /\ pending = {}
        /\ Answered(COMPANY) /\ Answered(REPORTS)
        /\ Len(rows) = Len(primary)
        /\ \A i \in 1..Len(rows) :
            /\ SameEvent(rows[i], primary[i])
            /\ rows[i].company = LastRowFor(companyRows, rows[i].isin)
            /\ rows[i].report = LastRowWithUrlFor(reportRows, rows[i].isin)

\* C9 witness: the report lookup fails first, the company lookup is answered
\* after it, and its row is attached.
C9_Witness ==
    /\ Returned
    /\ settled = << REPORTS, COMPANY >>
    /\ FailedQuery(REPORTS)
    /\ Len(rows) >= 1
    /\ rows[1].company # Undefined

\* C10: the reporting-today count Home derives equals the number of returned
\* records dated on the day loadUpcomingEarnings used as the primary query's
\* lower bound, Home's today being that same day.
C10_SameToday ==
    pc = "rendered" =>
        /\ upcomingCount = Cardinality({i \in 1..Len(rows) : rows[i].date = todayIso})
        /\ (rows # << >>) => homeToday = todayIso
====
